---- MODULE Spec2Model ----
(***************************************************************************)
(* A model of the ergonode core: the registrar loop (src/registrar.go)     *)
(* and the application supervision loop (src/application.go).              *)
(*                                                                         *)
(* An unbuffered Go channel is a rendezvous: the sending caller and the    *)
(* receiving select case of the registrar are one action.  A buffered      *)
(* channel is a bounded sequence.  A blocking channel send made by the     *)
(* registrar loop itself is a position of the loop (regPc), left by the    *)
(* action that completes the send.  A Go panic of the registrar goroutine  *)
(* is the position "panicked".                                             *)
(***************************************************************************)
EXTENDS Integers, Sequences, FiniteSets, TLC

\* ------------------------------------------------------------------ bounds
\* number of RegisterProcessExt calls made by the callers
MaxRegs == 2
\* number of route requests made by the senders
MaxSends == 2
\* capacity of each route channel (the source makes them with 100)
RouteCap == 2
\* capacity of a process mailbox (opts["mailbox-size"])
MailboxSize == 1
\* number of spec.Children of the application
NumChildren == 2
\* number of messages and exit signals the application receives
MaxAppEvents == 3
\* number of distinct pids whose unregisterProcess request finds no process
MaxMissed == 1
\* length of the inputs of Decode that are enumerated byte by byte
MaxLen == 3
\* number of route requests made by the senders when nothing but routing
\* goes on: one more than the route channels hold
MaxRouteSends == 3

\* --------------------------------------------------------- program constants
startPID == 1000

NodeName == "node@local"
RemoteNodes == {"peer@remote"}
Clients == {"c1", "c2"}
RegNames == {"", "a"}
Names == {"a"}
Senders == {"s1"}

VARIABLES
  \* registrar (src/registrar.go)
  nextPID, names, processes, peers,
  chPid, chName, chTuple,
  regPc, pending,
  clientPc, clientName,
  \* history of the registrar's observable effects
  allocated, sendSeq, sent, placed, attempts, requeues, connects, dropped,
  resolved, stopCalled, closed, peerReqs, missed,
  \* application loop (src/application.go)
  appPc, strategy, children, started, appMailBox, gracefulExit, timerC,
  exits, nodeStops, appResult, appSteps, handled,
  \* etf.Decode (src/etf/read.go)
  input, cache, packet, stack, term, t, decPc, result

tables == <<nextPID, names, processes, peers>>

chans == <<chPid, chName, chTuple>>

clients == <<clientPc, clientName>>

senders == <<sendSeq, sent>>

routeHist == <<placed, attempts, requeues, connects, dropped, resolved>>

\* the requests for the peers table that were processed, and the
\* unregisterProcess requests that found no process
tableHist == <<peerReqs, missed>>

regVars == <<tables, chans, regPc, pending, clients, allocated,
             senders, routeHist, stopCalled, closed, tableHist>>

appVars == <<appPc, strategy, children, started, appMailBox, gracefulExit,
             timerC, exits, nodeStops, appResult, appSteps, handled>>

decVars == <<input, cache, packet, stack, term, t, decPc, result>>

vars == <<regVars, appVars, decVars>>

\* ------------------------------------------------------------------ helpers
Put(f, k, v) == [x \in (DOMAIN f) \cup {k} |-> IF x = k THEN v ELSE f[x]]

Del(f, k) == [x \in (DOMAIN f) \ {k} |-> f[x]]

EmptyMap == [x \in {} |-> 0]

NoPending == [kind |-> "none"]

\* a routeByName request the loop has not taken yet
Unseen == [state |-> "unseen"]

\* the Id is taken from the start value instead of the counter
createNewPIDFromStart(n) ==
  [Node |-> NodeName, Id |-> startPID + 1, Serial |-> 1, Creation |-> 1]

\* etf.Pid built by createNewPID from the counter value n: r.nextPID++ and
\* Id: r.nextPID.  The counter is a uint32; MaxRegs keeps it far below 2^32,
\* so the increment never wraps here.
createNewPID(n) ==
  [Node |-> NodeName, Id |-> n + 1, Serial |-> 1, Creation |-> 1]

RemotePid == [Node |-> "peer@remote", Id |-> 5, Serial |-> 1, Creation |-> 1]

\* a local pid that no RegisterProcess ever returned
NeverPid == [Node |-> NodeName, Id |-> 7, Serial |-> 1, Creation |-> 1]

AllocatedPids == {allocated[i].pid : i \in 1..Len(allocated)}

KnownPids == AllocatedPids \cup DOMAIN processes

\* the application is not part of the registrar's specification
AppIdle ==
  /\ appPc = "idle"
  /\ strategy = "permanent"
  /\ children = <<>>
  /\ started = <<>>
  /\ appMailBox = <<>>
  /\ gracefulExit = <<>>
  /\ timerC = FALSE
  /\ exits = <<>>
  /\ nodeStops = 0
  /\ appResult = ""
  /\ appSteps = 0
  /\ handled = <<>>

\* the nil Term
NilTerm == [k |-> "nil"]

\* Decode has returned nothing yet
NoResult == [term |-> NilTerm, err |-> "none"]

\* the decoder is not part of the other specifications
DecIdle ==
  /\ input = <<>>
  /\ cache = <<>>
  /\ packet = <<>>
  /\ stack = <<>>
  /\ term = NilTerm
  /\ t = 0
  /\ decPc = "idle"
  /\ result = NoResult

\* createRegistrar: the state the loop starts in
RegInit ==
  /\ nextPID = startPID
  /\ names = EmptyMap
  /\ processes = EmptyMap
  /\ peers = [nil |-> TRUE, map |-> {}]
  /\ chPid = <<>>
  /\ chName = <<>>
  /\ chTuple = <<>>
  /\ regPc = "select"
  /\ pending = NoPending
  /\ clientPc = [c \in Clients |-> "idle"]
  /\ clientName = [c \in Clients |-> ""]
  /\ allocated = <<>>
  /\ sendSeq = 0
  /\ sent = <<>>
  /\ placed = <<>>
  /\ attempts = [i \in 1..MaxSends |-> 0]
  /\ requeues = [i \in 1..MaxSends |-> 0]
  /\ connects = [i \in 1..MaxSends |-> 0]
  /\ dropped = {}
  /\ resolved = [i \in 1..MaxSends |-> Unseen]
  /\ stopCalled = {}
  /\ closed = <<>>
  /\ peerReqs = {}
  /\ missed = {}

\* --------------------------------------------------- case p := <-process
RegsStarted ==
  Len(allocated) + Cardinality({c \in Clients : clientPc[c] = "wait"})

\* the loop takes the next request while the reply to the last one has not
\* been received, as it would with a buffered reply channel
RegisterProcessExtEarly(c, name) ==
  /\ regPc \in {"select", "reply"}
  /\ clientPc[c] = "idle"
  /\ RegsStarted < MaxRegs
  /\ LET pid == createNewPID(nextPID)
         process == [self |-> pid, name |-> name, mailBox |-> <<>>,
                     inStop |-> FALSE]
     IN /\ nextPID' = pid.Id
        /\ processes' = Put(processes, process.self, process)
        /\ names' = IF name # "" THEN Put(names, name, process.self) ELSE names
        /\ pending' = [kind |-> "reply", process |-> process, client |-> c]
  /\ regPc' = "reply"
  /\ clientPc' = [clientPc EXCEPT ![c] = "wait"]
  /\ clientName' = [clientName EXCEPT ![c] = name]
  /\ UNCHANGED <<peers, chans, allocated, senders, routeHist,
                 stopCalled, tableHist, closed, appVars, decVars>>

\* RegisterProcessExt sends the request; the loop allocates the pid, builds
\* the process, installs it and blocks on the reply channel
RegisterProcessExt(c, name) ==
  /\ regPc = "select"
  /\ clientPc[c] = "idle"
  /\ RegsStarted < MaxRegs
  /\ LET pid == createNewPID(nextPID)
         process == [self |-> pid, name |-> name, mailBox |-> <<>>,
                     inStop |-> FALSE]
     IN /\ nextPID' = pid.Id
        /\ processes' = Put(processes, process.self, process)
        /\ names' = IF name # "" THEN Put(names, name, process.self) ELSE names
        /\ pending' = [kind |-> "reply", process |-> process, client |-> c]
  /\ regPc' = "reply"
  /\ clientPc' = [clientPc EXCEPT ![c] = "wait"]
  /\ clientName' = [clientName EXCEPT ![c] = name]
  /\ UNCHANGED <<peers, chans, allocated, senders, routeHist,
                 stopCalled, tableHist, closed, appVars, decVars>>

\* r.channels.reply <- process is taken by a caller blocked in its select on
\* the reply channel; then r.nextPID++
ReplyProcess(c) ==
  /\ regPc = "reply"
  /\ clientPc[c] = "wait"
  /\ allocated' = Append(allocated,
        [pid |-> pending.process.self, name |-> pending.process.name,
         reqName |-> clientName[c], own |-> (c = pending.client)])
  /\ nextPID' = nextPID + 1
  /\ clientPc' = [clientPc EXCEPT ![c] = "idle"]
  /\ regPc' = "select"
  /\ pending' = NoPending
  /\ UNCHANGED <<names, processes, peers, chans, clientName, senders,
                 routeHist, stopCalled, tableHist, closed, appVars, decVars>>

\* ----------------------------------------- case up := <-unregisterProcess
\* the ok test looks at the pids ever handed out instead of the processes
\* table: a process that is gone is unregistered again
UnregisterProcessAgain(up) ==
  /\ regPc = "select"
  /\ up \in KnownPids \cup {NeverPid}
  /\ up \in DOMAIN processes \cup missed \/ Cardinality(missed) < MaxMissed
  /\ IF up \in KnownPids
       THEN /\ closed' = Append(closed, up)
            /\ processes' = Del(processes, up)
            /\ missed' = IF up \in DOMAIN processes THEN missed
                                                   ELSE missed \cup {up}
            /\ UNCHANGED names
       ELSE /\ missed' = missed \cup {up}
            /\ UNCHANGED <<closed, processes, names>>
  /\ UNCHANGED <<nextPID, peers, chans, regPc, pending, clients, allocated,
                 senders, routeHist, stopCalled, peerReqs, appVars, decVars>>

UnregisterProcess(up) ==
  /\ regPc = "select"
  /\ up \in KnownPids \cup {NeverPid}
  /\ up \in DOMAIN processes \cup missed \/ Cardinality(missed) < MaxMissed
  /\ IF up \in DOMAIN processes
       THEN LET p == processes[up]
            IN /\ closed' = Append(closed, p.self)
               /\ processes' = Del(processes, up)
               /\ names' = IF p.name # "" THEN Del(names, p.name) ELSE names
               /\ UNCHANGED missed
       ELSE /\ missed' = missed \cup {up}
            /\ UNCHANGED <<closed, processes, names>>
  /\ UNCHANGED <<nextPID, peers, chans, regPc, pending, clients, allocated,
                 senders, routeHist, stopCalled, peerReqs, appVars, decVars>>

\* ------------------------------------------------------ case n := <-name
RegisterName(name, pid) ==
  /\ regPc = "select"
  /\ name \in Names
  /\ pid \in DOMAIN processes
  /\ names' = IF name \in DOMAIN names THEN names ELSE Put(names, name, pid)
  /\ UNCHANGED <<nextPID, processes, peers, chans, regPc, pending, clients,
                 allocated, senders, routeHist, stopCalled, tableHist,
                 closed, appVars, decVars>>

\* --------------------------------------------- case un := <-unregisterName
UnregisterName(un) ==
  /\ regPc = "select"
  /\ un \in Names
  /\ names' = Del(names, un)
  /\ UNCHANGED <<nextPID, processes, peers, chans, regPc, pending, clients,
                 allocated, senders, routeHist, stopCalled, tableHist,
                 closed, appVars, decVars>>

\* ------------------------------------------------------ case p := <-peer
\* createRegistrar never makes r.peers: the lookup in the nil map misses and
\* the assignment to an entry of the nil map panics
RegisterPeer(name) ==
  /\ regPc = "select"
  /\ name \in RemoteNodes
  /\ IF name \in peers.map
       THEN UNCHANGED <<peers, regPc>>
       ELSE IF peers.nil
              THEN regPc' = "panicked" /\ UNCHANGED peers
              ELSE peers' = [peers EXCEPT !.map = @ \cup {name}]
                   /\ UNCHANGED regPc
  /\ peerReqs' = peerReqs \cup {name}
  /\ UNCHANGED <<nextPID, names, processes, chans, pending, clients,
                 allocated, senders, routeHist, stopCalled, missed, closed,
                 appVars, decVars>>

\* --------------------------------------------- case up := <-unregisterPeer
UnregisterPeer(name) ==
  /\ regPc = "select"
  /\ name \in RemoteNodes
  /\ UNCHANGED vars

\* ------------------------------------------------------------- senders
\* A panic ends the program; once the loop has returned nothing serves the
\* channels any more, and the model follows the senders no further.
Running == regPc \notin {"panicked", "done"}

InsertAt(q, k, x) == SubSeq(q, 1, k) \o <<x>> \o SubSeq(q, k + 1, Len(q))

\* the channel send is handed to a goroutine of its own, so the request
\* lands anywhere among the requests already waiting
RouteToPidAsync(from, to) ==
  /\ Running
  /\ sendSeq < MaxSends
  /\ to \in KnownPids \cup {RemotePid}
  /\ Len(chPid) < RouteCap
  /\ sendSeq' = sendSeq + 1
  /\ sent' = Append(sent, [kind |-> "pid", from |-> from, to |-> to])
  /\ \E k \in 0..Len(chPid) :
       chPid' = InsertAt(chPid, k, [from |-> from, pid |-> to,
                                   message |-> sendSeq + 1, retries |-> 0])
  /\ UNCHANGED <<tables, chName, chTuple, regPc, pending, clients,
                 allocated, routeHist, stopCalled, tableHist, closed, appVars, decVars>>

\* registrar.route with an etf.Pid destination: a routeByPidRequest with
\* retries 0 goes onto the buffered routeByPid channel; the senders make
\* limit requests in all
RouteToPidUpTo(limit, from, to) ==
  /\ Running
  /\ sendSeq < limit
  /\ to \in KnownPids \cup {RemotePid}
  /\ Len(chPid) < RouteCap
  /\ sendSeq' = sendSeq + 1
  /\ sent' = Append(sent, [kind |-> "pid", from |-> from, to |-> to])
  /\ chPid' = Append(chPid, [from |-> from, pid |-> to,
                             message |-> sendSeq + 1, retries |-> 0])
  /\ UNCHANGED <<tables, chName, chTuple, regPc, pending, clients,
                 allocated, routeHist, stopCalled, tableHist, closed, appVars, decVars>>

RouteToPid(from, to) == RouteToPidUpTo(MaxSends, from, to)

\* registrar.route with a string destination
RouteToName(from, name) ==
  /\ Running
  /\ sendSeq < MaxSends
  /\ name \in Names
  /\ Len(chName) < RouteCap
  /\ sendSeq' = sendSeq + 1
  /\ sent' = Append(sent, [kind |-> "name", from |-> from, to |-> name])
  /\ chName' = Append(chName, [from |-> from, name |-> name,
                               message |-> sendSeq + 1, retries |-> 0])
  /\ UNCHANGED <<tables, chPid, chTuple, regPc, pending, clients,
                 allocated, routeHist, stopCalled, tableHist, closed, appVars, decVars>>

\* registrar.route with a 2-tuple {name, node} destination
RouteToTupleUpTo(limit, from, name, node) ==
  /\ Running
  /\ sendSeq < limit
  /\ name \in Names
  /\ node \in RemoteNodes \cup {NodeName}
  /\ Len(chTuple) < RouteCap
  /\ sendSeq' = sendSeq + 1
  /\ sent' = Append(sent, [kind |-> "tuple", from |-> from,
                           to |-> <<name, node>>])
  /\ chTuple' = Append(chTuple, [from |-> from, tuple |-> <<name, node>>,
                                 message |-> sendSeq + 1, retries |-> 0])
  /\ UNCHANGED <<tables, chPid, chName, regPc, pending, clients,
                 allocated, routeHist, stopCalled, tableHist, closed, appVars, decVars>>

RouteToTuple(from, name, node) ==
  RouteToTupleUpTo(MaxSends, from, name, node)

\* a process takes the next message of its mailbox; it does not while it
\* is blocked in a call of its own
ProcessReceive(pid) ==
  /\ Running
  /\ pid \in DOMAIN processes
  /\ ~processes[pid].inStop
  /\ processes[pid].mailBox # <<>>
  /\ processes' = [processes EXCEPT ![pid].mailBox = Tail(@)]
  /\ UNCHANGED <<nextPID, names, peers, chans, regPc, pending, clients,
                 allocated, senders, routeHist, stopCalled, tableHist,
                 closed, appVars, decVars>>

\* A process calls its own Stop, which is wrapped_stop: stop(), then
\* r.UnregisterProcess(pid), a send on the unbuffered unregisterProcess
\* channel that lasts until the loop comes to receive it (inStop).
ProcessStop(pid) ==
  /\ Running
  /\ pid \in DOMAIN processes
  /\ ~processes[pid].inStop
  /\ processes' = [processes EXCEPT ![pid].inStop = TRUE]
  /\ UNCHANGED <<nextPID, names, peers, chans, regPc, pending, clients,
                 allocated, senders, routeHist, stopCalled, tableHist,
                 closed, appVars, decVars>>

\* ------------------------------------------------ case bp := <-routeByPid
Bump(f, i) == [f EXCEPT ![i] = @ + 1]

\* a request is retried once more than the source does
RetriesExhaustedLate(retries) == retries > 3

\* if bp.retries > 2: drop this message after 3 attempts to deliver it
RetriesExhausted(retries) == retries > 2

\* p.mailBox <- etf.Tuple{bp.from, bp.message}, once the mailbox has room
MailBoxPut(pid, from, message) ==
  /\ processes' = [processes EXCEPT
                     ![pid].mailBox = Append(@, <<from, message>>)]
  /\ placed' = Append(placed, [path |-> "local", dest |-> pid,
                               from |-> from, message |-> message])

\* the local route of routeByPid: p := r.processes[bp.pid] is nil for a pid
\* that is not a key, and p.mailBox dereferences it
LocalRoute(bp) ==
  IF bp.pid \notin DOMAIN processes
    THEN /\ regPc' = "panicked"
         /\ UNCHANGED <<processes, placed, pending>>
    ELSE IF Len(processes[bp.pid].mailBox) < MailboxSize
           THEN /\ MailBoxPut(bp.pid, bp.from, bp.message)
                /\ UNCHANGED <<regPc, pending>>
           ELSE /\ regPc' = "mailBoxSend"
                /\ pending' = [kind |-> "mailBoxSend", req |-> bp]
                /\ UNCHANGED <<processes, placed>>

RouteByPid ==
  /\ regPc = "select"
  /\ chPid # <<>>
  /\ LET bp == Head(chPid)
     IN /\ chPid' = Tail(chPid)
        /\ attempts' = Bump(attempts, bp.message)
        /\ IF RetriesExhausted(bp.retries)
             THEN /\ dropped' = dropped \cup {bp.message}
                  /\ UNCHANGED <<processes, placed, regPc, pending>>
             ELSE IF bp.pid.Node = NodeName
                    THEN /\ LocalRoute(bp)
                         /\ UNCHANGED dropped
                    ELSE IF bp.pid.Node \notin peers.map
                           THEN /\ regPc' = "requeuePid"
                                /\ pending' = [kind |-> "requeuePid",
                                     req |-> [bp EXCEPT !.retries = @ + 1]]
                                /\ UNCHANGED <<processes, placed, dropped>>
                           ELSE /\ placed' = Append(placed,
                                     [path |-> "peer", dest |-> bp.pid,
                                      from |-> bp.from,
                                      message |-> bp.message])
                                /\ UNCHANGED <<processes, regPc, pending,
                                               dropped>>
  /\ UNCHANGED <<nextPID, names, peers, chName, chTuple, clients,
                 allocated, senders, requeues, connects, resolved,
                 stopCalled, tableHist, closed, appVars, decVars>>

\* the loop was blocked in p.mailBox <- ... on a full mailbox
MailBoxSend ==
  /\ regPc = "mailBoxSend"
  /\ Len(processes[pending.req.pid].mailBox) < MailboxSize
  /\ MailBoxPut(pending.req.pid, pending.req.from, pending.req.message)
  /\ regPc' = "select"
  /\ pending' = NoPending
  /\ UNCHANGED <<nextPID, names, peers, chans, clients, allocated,
                 senders, attempts, requeues, connects, dropped, resolved,
                 stopCalled, tableHist, closed, appVars, decVars>>

\* r.channels.routeByPid <- bp by the loop itself, then r.node.connect
RequeuePid ==
  /\ regPc = "requeuePid"
  /\ Len(chPid) < RouteCap
  /\ chPid' = Append(chPid, pending.req)
  /\ requeues' = Bump(requeues, pending.req.message)
  /\ connects' = Bump(connects, pending.req.message)
  /\ regPc' = "select"
  /\ pending' = NoPending
  /\ UNCHANGED <<tables, chName, chTuple, clients, allocated,
                 senders, placed, attempts, dropped, resolved, stopCalled,
                 tableHist, closed, appVars, decVars>>

\* ----------------------------------------------- case bn := <-routeByName
\* a request whose name is not registered is put back for another attempt,
\* as the requests for a missing peer are
RouteByNameRetry ==
  /\ regPc = "select"
  /\ chName # <<>>
  /\ LET bn == Head(chName)
     IN IF bn.name \in DOMAIN names
          THEN /\ chName' = Tail(chName)
               /\ regPc' = "routePid"
               /\ pending' = [kind |-> "routePid",
                    req |-> [from |-> bn.from, pid |-> names[bn.name],
                             message |-> bn.message, retries |-> 0]]
               /\ resolved' = [resolved EXCEPT ![bn.message] =
                    [state |-> "pid", pid |-> names[bn.name]]]
          ELSE /\ chName' = IF RetriesExhausted(bn.retries)
                              THEN Tail(chName)
                              ELSE Append(Tail(chName),
                                          [bn EXCEPT !.retries = @ + 1])
               /\ resolved' = [resolved EXCEPT ![bn.message] =
                    [state |-> "absent"]]
               /\ UNCHANGED <<regPc, pending>>
  /\ UNCHANGED <<tables, chPid, chTuple, clients, allocated, senders,
                 placed, attempts, requeues, connects, dropped, stopCalled,
                 tableHist, closed, appVars, decVars>>

\* r.route(bn.from, pid, bn.message) sends a new routeByPidRequest from
\* inside the loop
RouteByName ==
  /\ regPc = "select"
  /\ chName # <<>>
  /\ LET bn == Head(chName)
     IN /\ chName' = Tail(chName)
        /\ IF bn.name \in DOMAIN names
             THEN /\ regPc' = "routePid"
                  /\ pending' = [kind |-> "routePid",
                       req |-> [from |-> bn.from, pid |-> names[bn.name],
                                message |-> bn.message, retries |-> 0]]
                  /\ resolved' = [resolved EXCEPT ![bn.message] =
                       [state |-> "pid", pid |-> names[bn.name]]]
             ELSE /\ resolved' = [resolved EXCEPT ![bn.message] =
                       [state |-> "absent"]]
                  /\ UNCHANGED <<regPc, pending>>
  /\ UNCHANGED <<tables, chPid, chTuple, clients, allocated, senders,
                 placed, attempts, requeues, connects, dropped, stopCalled,
                 tableHist, closed, appVars, decVars>>

RoutePid ==
  /\ regPc = "routePid"
  /\ Len(chPid) < RouteCap
  /\ chPid' = Append(chPid, pending.req)
  /\ regPc' = "select"
  /\ pending' = NoPending
  /\ UNCHANGED <<tables, chName, chTuple, clients, allocated,
                 senders, routeHist, stopCalled, tableHist, closed, appVars, decVars>>

\* ---------------------------------------------- case bt := <-routeByTuple
RouteByTuple ==
  /\ regPc = "select"
  /\ chTuple # <<>>
  /\ LET bt == Head(chTuple)
         to_process_name == bt.tuple[1]
         to_node == bt.tuple[2]
     IN /\ chTuple' = Tail(chTuple)
        /\ attempts' = Bump(attempts, bt.message)
        /\ IF RetriesExhausted(bt.retries)
             THEN /\ dropped' = dropped \cup {bt.message}
                  /\ UNCHANGED <<placed, regPc, pending>>
             ELSE IF to_node = NodeName
                    THEN /\ regPc' = "routeName"
                         /\ pending' = [kind |-> "routeName",
                              req |-> [from |-> bt.from,
                                       name |-> to_process_name,
                                       message |-> bt.message,
                                       retries |-> 0]]
                         /\ UNCHANGED <<placed, dropped>>
                    ELSE IF to_node \notin peers.map
                           THEN /\ regPc' = "requeueTuple"
                                /\ pending' = [kind |-> "requeueTuple",
                                     req |-> [bt EXCEPT !.retries = @ + 1]]
                                /\ UNCHANGED <<placed, dropped>>
                           ELSE /\ placed' = Append(placed,
                                     [path |-> "peer", dest |-> bt.tuple,
                                      from |-> bt.from,
                                      message |-> bt.message])
                                /\ UNCHANGED <<regPc, pending, dropped>>
  /\ UNCHANGED <<tables, chPid, chName, clients, allocated, senders,
                 requeues, connects, resolved, stopCalled, tableHist, closed,
                 appVars, decVars>>

RouteName ==
  /\ regPc = "routeName"
  /\ Len(chName) < RouteCap
  /\ chName' = Append(chName, pending.req)
  /\ regPc' = "select"
  /\ pending' = NoPending
  /\ UNCHANGED <<tables, chPid, chTuple, clients, allocated,
                 senders, routeHist, stopCalled, tableHist, closed, appVars, decVars>>

RequeueTuple ==
  /\ regPc = "requeueTuple"
  /\ Len(chTuple) < RouteCap
  /\ chTuple' = Append(chTuple, pending.req)
  /\ requeues' = Bump(requeues, pending.req.message)
  /\ connects' = Bump(connects, pending.req.message)
  /\ regPc' = "select"
  /\ pending' = NoPending
  /\ UNCHANGED <<tables, chPid, chName, clients, allocated,
                 senders, placed, attempts, dropped, resolved, stopCalled,
                 tableHist, closed, appVars, decVars>>

\* ------------------------------------------ case <-r.node.context.Done()
\* The node's context is cancelled and the select takes the Done case:
\* for _, p := range r.processes { p.Stop("normal") }; return.  Stop is
\* wrapped_stop: stop(); r.UnregisterProcess(pid), a send on the unbuffered
\* unregisterProcess channel, whose only receiver is the loop making the call
ContextDone ==
  /\ regPc = "select"
  /\ IF DOMAIN processes = {}
       THEN /\ regPc' = "done"
            /\ UNCHANGED <<stopCalled, pending>>
       ELSE \E p \in DOMAIN processes :
              /\ stopCalled' = stopCalled \cup {p}
              /\ pending' = [kind |-> "unregisterProcess", pid |-> p]
              /\ regPc' = "stopSend"
  /\ UNCHANGED <<tables, chans, clients, allocated, senders,
                 routeHist, closed, tableHist, appVars, decVars>>

RegNext ==
  \/ \E c \in Clients, name \in RegNames : RegisterProcessExt(c, name)
  \/ \E c \in Clients : ReplyProcess(c)
  \/ \E up \in KnownPids \cup {NeverPid} : UnregisterProcess(up)
  \/ \E name \in Names, pid \in DOMAIN processes : RegisterName(name, pid)
  \/ \E un \in Names : UnregisterName(un)
  \/ \E name \in RemoteNodes : RegisterPeer(name)
  \/ \E name \in RemoteNodes : UnregisterPeer(name)
  \/ \E from \in Senders, to \in KnownPids \cup {RemotePid} :
       RouteToPid(from, to)
  \/ \E from \in Senders, name \in Names : RouteToName(from, name)
  \/ \E from \in Senders, name \in Names,
        node \in RemoteNodes \cup {NodeName} : RouteToTuple(from, name, node)
  \/ \E pid \in DOMAIN processes : ProcessReceive(pid)
  \/ RouteByPid
  \/ MailBoxSend
  \/ RequeuePid
  \/ RouteByName
  \/ RoutePid
  \/ RouteByTuple
  \/ RouteName
  \/ RequeueTuple
  \/ ContextDone

RegStart == RegInit /\ AppIdle /\ DecIdle

SpecReg == RegStart /\ [][RegNext]_vars

\* ---------------------------------------------------------- routing only
\* The registrar right after createRegistrar, with senders that route to
\* another node and by {name, node} and no other caller: no process is
\* registered and the node is not stopped.
RouteInit ==
  /\ nextPID = startPID
  /\ names = EmptyMap
  /\ processes = EmptyMap
  /\ peers = [nil |-> TRUE, map |-> {}]
  /\ chPid = <<>>
  /\ chName = <<>>
  /\ chTuple = <<>>
  /\ regPc = "select"
  /\ pending = NoPending
  /\ clientPc = [c \in Clients |-> "idle"]
  /\ clientName = [c \in Clients |-> ""]
  /\ allocated = <<>>
  /\ sendSeq = 0
  /\ sent = <<>>
  /\ placed = <<>>
  /\ attempts = [i \in 1..MaxRouteSends |-> 0]
  /\ requeues = [i \in 1..MaxRouteSends |-> 0]
  /\ connects = [i \in 1..MaxRouteSends |-> 0]
  /\ dropped = {}
  /\ resolved = [i \in 1..MaxRouteSends |-> Unseen]
  /\ stopCalled = {}
  /\ closed = <<>>
  /\ peerReqs = {}
  /\ missed = {}

RouteNext ==
  \/ \E from \in Senders : RouteToPidUpTo(MaxRouteSends, from, RemotePid)
  \/ \E from \in Senders, name \in Names,
        node \in RemoteNodes \cup {NodeName} :
       RouteToTupleUpTo(MaxRouteSends, from, name, node)
  \/ RouteByPid
  \/ RequeuePid
  \/ RouteByName
  \/ RouteByTuple
  \/ RouteName
  \/ RequeueTuple

RouteStart == RouteInit /\ AppIdle /\ DecIdle

SpecRoute == RouteStart /\ [][RouteNext]_vars

\* ------------------------------------------------- processes that stop
\* The registrar with callers that register processes, senders that route
\* to the pids handed out, and processes that receive and that stop
\* themselves.
StopNext ==
  \/ \E c \in Clients, name \in RegNames : RegisterProcessExt(c, name)
  \/ \E c \in Clients : ReplyProcess(c)
  \/ \E from \in Senders, to \in KnownPids : RouteToPid(from, to)
  \/ \E pid \in DOMAIN processes : ProcessReceive(pid)
  \/ \E pid \in DOMAIN processes : ProcessStop(pid)
  \/ \E up \in KnownPids : UnregisterProcess(up)
  \/ RouteByPid
  \/ MailBoxSend

SpecStop == RegStart /\ [][StopNext]_vars

\* ======================================================== application
\* ApplicationStrategyPermanent / Temporary / Transient
Strategies == {"permanent", "temporary", "transient"}

Reasons == {"normal", "shutdown", "crash"}

NoProcess == [Node |-> "", Id |-> 0, Serial |-> 0, Creation |-> 0]

\* p.Self() of the application process
AppPid == [Node |-> NodeName, Id |-> 1001, Serial |-> 1, Creation |-> 1]

\* the process startChild returns for spec.Children[i]
ChildPid(i) == [Node |-> NodeName, Id |-> 1001 + 2 * i, Serial |-> 1,
                Creation |-> 1]

\* a process that is no child of the application
StrangerPid == [Node |-> NodeName, Id |-> 999, Serial |-> 1, Creation |-> 1]

ChildIndex == 1..NumChildren

\* etf terms: the loop tells them apart by their Go type
PidTerm(pid) == [type |-> "pid", pid |-> pid]

AtomTerm(a) == [type |-> "atom", atom |-> a]

TupleTerm(elems) == [type |-> "tuple", elems |-> elems]

\* etf.Tuple{{"EXIT", Pid, Reason}}: the tuple is the first element
ExitMessage(pid, reason) ==
  <<TupleTerm(<<AtomTerm("EXIT"), PidTerm(pid), AtomTerm(reason)>>)>>

\* etf.Tuple{from, message}: what the registrar's local route enqueues
RoutedMessage(from, pid, reason) ==
  <<PidTerm(from),
    TupleTerm(<<AtomTerm("EXIT"), PidTerm(pid), AtomTerm(reason)>>)>>

AppMessages ==
  {ExitMessage(pid, reason) :
     pid \in {ChildPid(i) : i \in ChildIndex} \cup {StrangerPid},
     reason \in Reasons}
  \cup {RoutedMessage(ChildPid(1), ChildPid(1), "crash")}
  \cup {<<>>}
  \cup {<<TupleTerm(<<AtomTerm("EXIT"), PidTerm(ChildPid(1))>>)>>}
  \cup {<<TupleTerm(<<AtomTerm("DOWN"), PidTerm(ChildPid(1)),
                      AtomTerm("crash")>>)>>}

RegIdle ==
  /\ nextPID = startPID
  /\ names = EmptyMap
  /\ processes = EmptyMap
  /\ peers = [nil |-> TRUE, map |-> {}]
  /\ chPid = <<>>
  /\ chName = <<>>
  /\ chTuple = <<>>
  /\ regPc = "idle"
  /\ pending = NoPending
  /\ clientPc = [c \in Clients |-> "idle"]
  /\ clientName = [c \in Clients |-> ""]
  /\ allocated = <<>>
  /\ sendSeq = 0
  /\ sent = <<>>
  /\ placed = <<>>
  /\ attempts = [i \in 1..MaxSends |-> 0]
  /\ requeues = [i \in 1..MaxSends |-> 0]
  /\ connects = [i \in 1..MaxSends |-> 0]
  /\ dropped = {}
  /\ resolved = [i \in 1..MaxSends |-> Unseen]
  /\ stopCalled = {}
  /\ closed = <<>>
  /\ peerReqs = {}
  /\ missed = {}

\* Application.loop up to startChildren; spec.Children[i].process is nil
AppInit ==
  /\ appPc = "start"
  /\ strategy \in Strategies
  /\ children = [i \in ChildIndex |-> NoProcess]
  /\ started = <<>>
  /\ appMailBox = <<>>
  /\ gracefulExit = <<>>
  /\ timerC = FALSE
  /\ exits = <<>>
  /\ nodeStops = 0
  /\ appResult = ""
  /\ appSteps = 0
  /\ handled = <<>>

RECURSIVE stopFrom(_, _, _, _)
\* the loop of stopChildren from index i on: the Exit calls it makes
stopFrom(i, from, chs, reason) ==
  IF i > Len(chs)
    THEN <<>>
    ELSE (IF chs[i] # NoProcess /\ chs[i] # from
            THEN <<[to |-> chs[i], from |-> from, reason |-> reason]>>
            ELSE <<>>)
         \o stopFrom(i + 1, from, chs, reason)

\* the test child.self != from is missing: the originator of the cascade is
\* signalled like every other child
stopChildrenAll(from, chs, reason) ==
  LET live == SelectSeq(chs, LAMBDA c : c # NoProcess)
  IN [k \in 1..Len(live) |->
        [to |-> live[k], from |-> from, reason |-> reason]]

\* Application.stopChildren
stopChildren(from, chs, reason) == stopFrom(1, from, chs, reason)

\* startChildren goes on past a child that failed to start
StartChildKeepGoing(i, ok) ==
  /\ appPc = "start"
  /\ i = Len(started) + 1
  /\ i <= NumChildren
  /\ children' = IF ok THEN [children EXCEPT ![i] = ChildPid(i)] ELSE children
  /\ started' = Append(started, i)
  /\ appPc' = IF i = NumChildren THEN "loop" ELSE "start"
  /\ UNCHANGED <<strategy, appMailBox, gracefulExit, timerC, exits,
                 nodeStops, appResult, appSteps, handled, regVars, decVars>>

\* one pass of the loop of startChildren, and what Application.loop does when
\* it returns false: stopChildren(p.Self(), children, "failed"); return
StartChild(i, ok) ==
  /\ appPc = "start"
  /\ i = Len(started) + 1
  /\ i <= NumChildren
  /\ IF ok
       THEN /\ children' = [children EXCEPT ![i] = ChildPid(i)]
            /\ started' = Append(started, i)
            /\ appPc' = IF i = NumChildren THEN "loop" ELSE "start"
            /\ UNCHANGED <<exits, appResult>>
       ELSE /\ exits' = exits \o stopChildren(AppPid, children, "failed")
            /\ appPc' = "returned"
            /\ appResult' = "failed"
            /\ UNCHANGED <<children, started>>
  /\ UNCHANGED <<strategy, appMailBox, gracefulExit, timerC, nodeStops,
                 appSteps, handled, regVars, decVars>>

\* ------------------------------------------------------- the environment
\* a message is put into the application's mailbox
AppDeliver(msg) ==
  /\ appPc \in {"start", "loop"}
  /\ appSteps < MaxAppEvents
  /\ Len(appMailBox) < MailboxSize
  /\ appMailBox' = Append(appMailBox, msg)
  /\ appSteps' = appSteps + 1
  /\ UNCHANGED <<appPc, strategy, children, started, gracefulExit, timerC,
                 exits, nodeStops, appResult, handled, regVars, decVars>>

\* Process.Exit(from, reason) of the application: a graceful-exit signal
AppExitSignal(from, reason) ==
  /\ appPc \in {"start", "loop"}
  /\ appSteps < MaxAppEvents
  /\ gracefulExit = <<>>
  /\ gracefulExit' = <<[from |-> from, reason |-> reason]>>
  /\ appSteps' = appSteps + 1
  /\ UNCHANGED <<appPc, strategy, children, started, appMailBox, timerC,
                 exits, nodeStops, appResult, handled, regVars, decVars>>

\* ----------------------------------------------------- the steady state
\* case ex := <-p.gracefulExit
AppGracefulExit ==
  /\ appPc = "loop"
  /\ gracefulExit # <<>>
  /\ LET ex == Head(gracefulExit)
     IN /\ exits' = exits \o stopChildren(ex.from, children, ex.reason)
        /\ appResult' = ex.reason
  /\ gracefulExit' = Tail(gracefulExit)
  /\ appPc' = "returned"
  /\ UNCHANGED <<strategy, children, started, appMailBox, timerC, nodeStops,
                 appSteps, handled, regVars, decVars>>

\* case <-p.Context.Done()
AppContextDone ==
  /\ appPc = "loop"
  /\ appPc' = "returned"
  /\ appResult' = "kill"
  /\ UNCHANGED <<strategy, children, started, appMailBox, gracefulExit,
                 timerC, exits, nodeStops, appSteps, handled, regVars, decVars>>

\* the timer case asks for the exit with the reason of a node shutdown
AppTimerShutdown ==
  /\ appPc = "loop"
  /\ ~timerC
  /\ gracefulExit = <<>>
  /\ timerC' = TRUE
  /\ gracefulExit' = <<[from |-> AppPid, reason |-> "shutdown"]>>
  /\ UNCHANGED <<appPc, strategy, children, started, appMailBox, exits,
                 nodeStops, appResult, appSteps, handled, regVars, decVars>>

\* case <-timer.C: p.Exit(p.Self(), "normal")
AppTimer ==
  /\ appPc = "loop"
  /\ ~timerC
  /\ gracefulExit = <<>>
  /\ timerC' = TRUE
  /\ gracefulExit' = <<[from |-> AppPid, reason |-> "normal"]>>
  /\ UNCHANGED <<appPc, strategy, children, started, appMailBox, exits,
                 nodeStops, appResult, appSteps, handled, regVars, decVars>>

\* msg[0] is an etf.Tuple of 3 elements whose first is the atom EXIT
IsExitMessage(msg) ==
  /\ Len(msg) # 0
  /\ msg[1].type = "tuple"
  /\ Len(msg[1].elems) = 3
  /\ msg[1].elems[1] = AtomTerm("EXIT")

Terminated(msg) == msg[1].elems[2].pid

ExitReason(msg) == msg[1].elems[3].atom

\* the search for terminatedProcess among spec.Children
IsChild(pid) == \E i \in ChildIndex : children[i] # NoProcess /\ children[i] = pid

\* a transient application escalates every reason but "normal", as the
\* comment of ApplicationStrategyTransient has it
StrategyOutcomeDoc(st, reason) ==
  CASE st = "permanent" ->
         [stop |-> TRUE, stopReason |-> reason, ret |-> "shutdown"]
    [] st = "transient" ->
         IF reason = "normal"
           THEN [stop |-> FALSE, stopReason |-> "", ret |-> ""]
           ELSE [stop |-> TRUE, stopReason |-> "normal", ret |-> reason]
    [] OTHER -> [stop |-> FALSE, stopReason |-> "", ret |-> ""]

\* a permanent application stops its children with "normal", as the
\* transient one does
StrategyOutcomeNormal(st, reason) ==
  CASE st = "permanent" ->
         [stop |-> TRUE, stopReason |-> "normal", ret |-> "shutdown"]
    [] st = "transient" ->
         IF reason \in {"normal", "shutdown"}
           THEN [stop |-> FALSE, stopReason |-> "", ret |-> ""]
           ELSE [stop |-> TRUE, stopReason |-> "normal", ret |-> reason]
    [] OTHER -> [stop |-> FALSE, stopReason |-> "", ret |-> ""]

\* the case of the temporary strategy is missing a break from the transient
\* one: a temporary application escalates like a transient one
StrategyOutcomeFallThrough(st, reason) ==
  CASE st = "permanent" ->
         [stop |-> TRUE, stopReason |-> reason, ret |-> "shutdown"]
    [] OTHER ->
         IF reason \in {"normal", "shutdown"}
           THEN [stop |-> FALSE, stopReason |-> "", ret |-> ""]
           ELSE [stop |-> TRUE, stopReason |-> "normal", ret |-> reason]

\* switch spec.Strategy: whether the children are stopped and the node is
\* asked to stop, with which reason, and what the loop returns
StrategyOutcome(st, reason) ==
  CASE st = "permanent" ->
         [stop |-> TRUE, stopReason |-> reason, ret |-> "shutdown"]
    [] st = "transient" ->
         IF reason \in {"normal", "shutdown"}
           THEN [stop |-> FALSE, stopReason |-> "", ret |-> ""]
           ELSE [stop |-> TRUE, stopReason |-> "normal", ret |-> reason]
    [] OTHER -> [stop |-> FALSE, stopReason |-> "", ret |-> ""]

\* case msg := <-p.mailBox.  terminatedProcess stays nil when the pid is no
\* started child; terminatedProcess.Name() then has a nil receiver, and
\* Process.Name is not part of these sources: it either panics or returns
AppMailBox ==
  /\ appPc = "loop"
  /\ appMailBox # <<>>
  /\ appMailBox' = Tail(appMailBox)
  /\ LET msg == Head(appMailBox)
     IN IF ~IsExitMessage(msg)
          THEN UNCHANGED <<appPc, exits, nodeStops, appResult, handled>>
          ELSE LET terminated == Terminated(msg)
                   reason == ExitReason(msg)
                   out == StrategyOutcome(strategy, reason)
                   sentExits == IF out.stop
                                  THEN stopChildren(terminated, children,
                                                    out.stopReason)
                                  ELSE <<>>
               IN /\ handled' = Append(handled, [pid |-> terminated,
                                                  reason |-> reason])
                  /\ \/ /\ exits' = exits \o sentExits
                        /\ nodeStops' = IF out.stop THEN nodeStops + 1
                                                    ELSE nodeStops
                        /\ appPc' = IF out.stop THEN "returned" ELSE "loop"
                        /\ appResult' = IF out.stop THEN out.ret
                                                    ELSE appResult
                     \/ /\ ~IsChild(terminated)
                        /\ exits' = exits \o sentExits
                        /\ appPc' = "panicked"
                        /\ UNCHANGED <<nodeStops, appResult>>
  /\ UNCHANGED <<strategy, children, started, gracefulExit, timerC, appSteps,
                 regVars, decVars>>

AppNext ==
  \/ \E i \in ChildIndex, ok \in BOOLEAN : StartChild(i, ok)
  \/ \E msg \in AppMessages : AppDeliver(msg)
  \/ \E from \in {ChildPid(i) : i \in ChildIndex} \cup {StrangerPid},
        reason \in Reasons : AppExitSignal(from, reason)
  \/ AppGracefulExit
  \/ AppContextDone
  \/ AppTimer
  \/ AppMailBox

AppStart == AppInit /\ RegIdle /\ DecIdle

SpecApp == AppStart /\ [][AppNext]_vars

\* The loop goroutine is scheduled, and a select with a ready case takes a
\* ready case: a graceful-exit signal that stays pending is taken unless the
\* loop ends through another case first.
SpecAppFair == SpecApp /\ WF_vars(AppGracefulExit)

\* ============================================================ ETF decoder
\* etf.Decode (src/etf/read.go).  A byte is a number in 0..255, a packet a
\* sequence of bytes.  The packet handed to Decode is taken to fill its
\* buffer, so that a slice expression that reaches beyond the remaining
\* bytes panics.  The bytes of the inputs that hold 16- and 32-bit lengths
\* are below 128, so every length read fits a 32-bit integer of TLC and
\* no 32-bit addition wraps, but for the list length 0xFFFFFFFF, which is
\* treated apart; the additions on 8- and 16-bit lengths are made in their
\* width.

\* the tag bytes of the external term format
ettAtom == 100
ettAtomUTF8 == 118
ettSmallAtom == 115
ettSmallAtomUTF8 == 119
ettString == 107
ettCacheRef == 82
ettNewFloat == 70
ettSmallInteger == 97
ettInteger == 98
ettSmallBig == 110
ettLargeBig == 111
ettList == 108
ettSmallTuple == 104
ettLargeTuple == 105
ettMap == 116
ettBinary == 109
ettNil == 106
ettPid == 103
ettNewPid == 88
ettNewRef == 114
ettNewerRef == 90
ettNewFun == 112
ettPort == 102
ettNewPort == 89
ettBitBinary == 77

\* ---------------------------------------------------------------- bytes
\* binary.BigEndian.Uint16 and Uint32
Uint16(p) == p[1] * 256 + p[2]

Uint32(p) == ((p[1] * 256 + p[2]) * 256 + p[3]) * 256 + p[4]

\* n + c on a byte and on a uint16
AddU8(n, c) == (n + c) % 256

AddU16(n, c) == (n + c) % 65536

\* the slice expression p[lo:hi] does not panic
SliceOk(p, lo, hi) == lo <= hi /\ hi <= Len(p)

\* p[lo:hi] and p[lo:]
Slice(p, lo, hi) == SubSeq(p, lo + 1, hi)

From(p, lo) == SubSeq(p, lo + 1, Len(p))

\* a sequence without the zeros at its end
RECURSIVE StripZeros(_)
StripZeros(s) ==
  IF s = <<>> \/ s[Len(s)] # 0 THEN s ELSE StripZeros(SubSeq(s, 1, Len(s) - 1))

RECURSIVE Pow2(_)
Pow2(n) == IF n = 0 THEN 1 ELSE 2 * Pow2(n - 1)

\* b >> s on a byte, s a uint: a shift by 8 or more leaves 0, and 8 - bits
\* on a uint is a huge count when bits is above 8
ShiftRight(b, bits) == IF bits = 0 \/ bits > 8 THEN 0 ELSE b \div Pow2(8 - bits)

\* ---------------------------------------------------------------- terms
\* Every term is a record whose first field k names its Go type.
Atom(bytes) == [k |-> "Atom", v |-> bytes]

String(bytes) == [k |-> "string", v |-> bytes]

Float64(bits) == [k |-> "float64", v |-> bits]

GoInt(n) == [k |-> "int", v |-> n]

Binary(bytes) == [k |-> "bytes", v |-> bytes]

List(elems) == [k |-> "List", v |-> elems]

Tuple(elems) == [k |-> "Tuple", v |-> elems]

Map(entries) == [k |-> "Map", v |-> entries]

\* termNil = make(List, 0)
termNil == List(<<>>)

\* an integer given by its sign and its little-endian digits, held in an
\* int64 or in a *big.Int
Number(gotype, negative, le) ==
  [k |-> gotype, le |-> StripZeros(le),
   neg |-> negative /\ StripZeros(le) # <<>>]

\* int32(binary.BigEndian.Uint32(p)): the two's complement value
Int32(p) ==
  IF p[1] < 128 THEN Uint32(p)
  ELSE ((((p[1] - 256) * 256 + p[2]) * 256 + p[3]) * 256) + p[4]

RECURSIVE Digits(_)
\* the little-endian digits of a natural number
Digits(m) == IF m = 0 THEN <<>> ELSE <<m % 256>> \o Digits(m \div 256)

\* int64(n) of a 32-bit value
Int64(n) == Number("int64", n < 0, Digits(IF n < 0 THEN 0 - n ELSE n))

\* bigInt.Cmp(biggestInt) < 0 && bigInt.Cmp(lowestInt) > 0, the bounds being
\* +-0xfffffffffffffff: the magnitude is below 2^60 - 1
FitsInt64(le) ==
  LET d == StripZeros(le)
  IN \/ Len(d) < 8
     \/ /\ Len(d) = 8
        /\ \/ d[8] < 15
           \/ d[8] = 15 /\ \E j \in 1..7 : d[j] < 255

\* the value of a term can be the key of a Go map: a slice, a map or a
\* struct that holds a slice is not hashable, and using it as a key panics
Hashable(item) ==
  item.k \in {"nil", "Atom", "string", "float64", "int", "int64", "bigInt",
              "Pid", "Port"}

\* ---------------------------------------------------------------- errors
NoError == "nil"

\* what a pass of the loop comes to
Fail(err) == [kind |-> "error", err |-> err]

Panic == [kind |-> "panic"]

Leaf(item, rest) == [kind |-> "term", term |-> item, rest |-> rest]

Push(frame, rest) == [kind |-> "child", frame |-> frame, rest |-> rest]

\* a stackElement; elems holds the children placed so far of a List or a
\* Tuple, whose slots make(...) has allocated, and i is their number
Frame(termType, item, count, tmp) ==
  [termType |-> termType, term |-> item, i |-> 0, children |-> count,
   tmp |-> tmp]
\* ------------------------------------------------- Stage 1: the base types
\* case ettAtomUTF8, ettAtom / ettString: a 16-bit length and the bytes,
\* which make an Atom or a string
Stage1Len16(p, err, gotype) ==
  IF Len(p) < 2 THEN Fail(err)
  ELSE LET n == Uint16(p)
           hi == AddU16(n, 2)
       IN IF Len(p) < hi THEN Fail(err)
          ELSE IF ~SliceOk(p, 2, hi) THEN Panic
          ELSE Leaf([k |-> gotype, v |-> Slice(p, 2, hi)], From(p, hi))

\* case ettSmallAtomUTF8, ettSmallAtom
Stage1SmallAtom(p) ==
  IF Len(p) = 0 THEN Fail("ErrMalformedSmallAtomUTF8")
  ELSE LET n == p[1]
       IN IF Len(p) < n + 1 THEN Fail("ErrMalformedSmallAtomUTF8")
          ELSE Leaf(Atom(Slice(p, 1, n + 1)), From(p, n + 1))

\* case ettCacheRef: cache[int(packet[0])] has no bounds check of its own
Stage1CacheRef(p, atomCache) ==
  IF Len(p) = 0 THEN Fail("ErrMalformedCacheRef")
  ELSE IF p[1] >= Len(atomCache) THEN Panic
  ELSE Leaf(atomCache[p[1] + 1], From(p, 1))

\* case ettNewFloat
Stage1NewFloat(p) ==
  IF Len(p) < 8 THEN Fail("ErrMalformedNewFloat")
  ELSE Leaf(Float64(Slice(p, 0, 8)), From(p, 8))

\* case ettSmallInteger
Stage1SmallInteger(p) ==
  IF Len(p) = 0 THEN Fail("ErrMalformedSmallInteger")
  ELSE Leaf(GoInt(p[1]), From(p, 1))

\* case ettInteger
Stage1Integer(p) ==
  IF Len(p) < 4 THEN Fail("ErrMalformedInteger")
  ELSE Leaf(Int64(Int32(p)), From(p, 4))

\* case ettSmallBig: n is a byte and n+2 is computed as a byte; the sign is
\* read before any check of its presence, and below 8 digits the digits are
\* sliced without a check
Stage1SmallBig(p) ==
  IF Len(p) = 0 THEN Fail("ErrMalformedSmallBig")
  ELSE IF Len(p) < 2 THEN Panic
  ELSE LET n == p[1]
           negative == (p[2] = 1)
           hi == AddU8(n, 2)
       IN IF n < 8
            THEN IF ~SliceOk(p, 2, hi) THEN Panic
                 ELSE Leaf(Number("int64", negative, Slice(p, 2, hi)),
                           From(p, hi))
            ELSE IF Len(p) < hi THEN Fail("ErrMalformedSmallBig")
                 ELSE IF ~SliceOk(p, 2, hi) THEN Panic
                 ELSE LET bytes == Slice(p, 2, hi)
                      IN Leaf(Number(IF FitsInt64(bytes) THEN "int64"
                                                       ELSE "bigInt",
                                     negative, bytes),
                              From(p, hi))

\* case ettLargeBig
Stage1LargeBig(p) ==
  IF Len(p) < 256 THEN Fail("ErrMalformedLargeBig")
  ELSE LET n == Uint32(p)
           negative == (p[5] = 1)
       IN IF Len(p) < n + 5 THEN Fail("ErrMalformedLargeBig")
          ELSE Leaf(Number("bigInt", negative, Slice(p, 5, n + 5)),
                    From(p, n + 5))

\* case ettList: make(List, n+1) and a frame of n+1 children; n is a
\* uint32 and so is n+1, which is 0 for n = 0xFFFFFFFF
Stage1List(p) ==
  IF Len(p) < 4 THEN Fail("ErrMalformedList")
  ELSE LET bytes == Slice(p, 0, 4)
       IN IF bytes = <<0, 0, 0, 0>> THEN Fail("ErrMalformedList")
          ELSE Push(Frame(ettList, List(<<>>),
                          IF bytes = <<255, 255, 255, 255>> THEN 0
                          ELSE Uint32(bytes) + 1,
                          NilTerm),
                    From(p, 4))

\* case ettSmallTuple
Stage1SmallTuple(p) ==
  IF Len(p) = 0 THEN Fail("ErrMalformedSmallTuple")
  ELSE LET n == p[1]
       IN IF n = 0 THEN Leaf(Tuple(<<>>), From(p, 1))
          ELSE Push(Frame(ettSmallTuple, Tuple(<<>>), n, NilTerm),
                    From(p, 1))

\* case ettLargeTuple
Stage1LargeTuple(p) ==
  IF Len(p) < 4 THEN Fail("ErrMalformedLargeTuple")
  ELSE LET n == Uint32(p)
       IN IF n = 0 THEN Leaf(Tuple(<<>>), From(p, 4))
          ELSE Push(Frame(ettLargeTuple, Tuple(<<>>), n, NilTerm),
                    From(p, 4))

\* case ettMap: a frame of int(n) * 2 children, kept as the n pairs
Stage1Map(p) ==
  IF Len(p) < 4 THEN Fail("ErrMalformedMap")
  ELSE LET n == Uint32(p)
       IN IF n = 0 THEN Leaf(Map(<<>>), From(p, 4))
          ELSE Push(Frame(ettMap, Map(<<>>), n, NilTerm), From(p, 4))

\* case ettBinary
Stage1Binary(p) ==
  IF Len(p) < 4 THEN Fail("ErrMalformedBinary")
  ELSE LET n == Uint32(p)
       IN IF Len(p) < n + 4 THEN Fail("ErrMalformedBinary")
          ELSE Leaf(Binary(Slice(p, 4, n + 4)), From(p, n + 4))

\* case ettNewRef, ettNewerRef: the number of id words goes into tmp
Stage1Ref(tag, p) ==
  IF Len(p) < 2 THEN Fail("ErrMalformedRef")
  ELSE Push(Frame(tag, NilTerm, 1, Uint16(p)), From(p, 2))

\* case ettNewFun: the header is read up to the number of free variables
Stage1NewFun(tag, p) ==
  IF Len(p) < 32 THEN Fail("ErrMalformedFun")
  ELSE LET l == Uint32(Slice(p, 25, 29))
           fun == [k |-> "Function", Arity |-> p[5],
                   Unique |-> Slice(p, 5, 21),
                   Index |-> Uint32(Slice(p, 21, 25)),
                   FreeVars |-> <<>>, NumFree |-> l,
                   Module |-> NilTerm, OldIndex |-> NilTerm,
                   OldUnique |-> NilTerm, Pid |-> NilTerm]
       IN Push(Frame(tag, fun, 4 + l, NilTerm), From(p, 29))

\* case ettBitBinary: the payload is sliced and its last byte indexed
\* without a check against the remaining bytes
Stage1BitBinary(p) ==
  IF Len(p) < 6 THEN Fail("ErrMalformedBitBinary")
  ELSE LET n == Uint32(p)
           bits == p[5]
       IN IF ~SliceOk(p, 5, n + 5) THEN Panic
          ELSE IF n = 0 THEN Panic
          ELSE LET b == Slice(p, 5, n + 5)
               IN Leaf(Binary([b EXCEPT ![n] = ShiftRight(b[n], bits)]),
                       From(p, n + 5))

\* switch t: the tag t has been taken off the packet, p is what follows
Stage1(tag, p, atomCache) ==
  CASE tag \in {ettAtomUTF8, ettAtom} ->
         Stage1Len16(p, "ErrMalformedAtomUTF8", "Atom")
    [] tag \in {ettSmallAtomUTF8, ettSmallAtom} -> Stage1SmallAtom(p)
    [] tag = ettString -> Stage1Len16(p, "ErrMalformedString", "string")
    [] tag = ettCacheRef -> Stage1CacheRef(p, atomCache)
    [] tag = ettNewFloat -> Stage1NewFloat(p)
    [] tag = ettSmallInteger -> Stage1SmallInteger(p)
    [] tag = ettInteger -> Stage1Integer(p)
    [] tag = ettSmallBig -> Stage1SmallBig(p)
    [] tag = ettLargeBig -> Stage1LargeBig(p)
    [] tag = ettList -> Stage1List(p)
    [] tag = ettSmallTuple -> Stage1SmallTuple(p)
    [] tag = ettLargeTuple -> Stage1LargeTuple(p)
    [] tag = ettMap -> Stage1Map(p)
    [] tag = ettBinary -> Stage1Binary(p)
    [] tag = ettNil -> Leaf(termNil, p)
    [] tag \in {ettPid, ettNewPid, ettPort, ettNewPort} ->
         Push(Frame(tag, NilTerm, 1, NilTerm), p)
    [] tag \in {ettNewRef, ettNewerRef} -> Stage1Ref(tag, p)
    [] tag = ettNewFun -> Stage1NewFun(tag, p)
    [] tag = ettBitBinary -> Stage1BitBinary(p)
    [] OTHER -> Fail("ErrMalformedUnknownType")
\* ------------------------------------------- Stage 2: the stack of frames
Placed(frame, rest) == [kind |-> "placed", frame |-> frame, rest |-> rest]

Pid(name, p, creation) ==
  [k |-> "Pid", Node |-> name, Id |-> Uint32(Slice(p, 0, 4)),
   Serial |-> Uint32(Slice(p, 4, 8)), Creation |-> creation]

Port(name, p, creation) ==
  [k |-> "Port", Node |-> name, Id |-> Uint32(Slice(p, 0, 4)),
   Creation |-> creation]

RECURSIVE Words(_, _)
\* the loop that reads l 32-bit words off the packet
Words(p, l) ==
  IF l = 0 THEN <<>>
  ELSE <<Uint32(Slice(p, 0, 4))>> \o Words(From(p, 4), l - 1)

Ref(name, creation, p, l) ==
  [k |-> "Ref", Node |-> name, Creation |-> creation, Id |-> Words(p, l)]

\* uint32(n) of an int64 given by sign and digits: its low four bytes, in
\* two's complement when negative, little-endian
Uint32OfInt64(num) ==
  LET low == [j \in 1..4 |-> IF j <= Len(num.le) THEN num.le[j] ELSE 0]
      inv == [j \in 1..4 |-> 255 - low[j]]
      carry == [j \in 1..4 |-> \A h \in 1..(j - 1) : inv[h] = 255]
  IN IF ~num.neg THEN low
     ELSE [j \in 1..4 |-> IF carry[j] THEN (inv[j] + 1) % 256 ELSE inv[j]]

\* case ettList: the slot i takes the term, and there are as many slots
\* as children; at the last child the list is cut by one when the tag read
\* last is ettNil
PlaceList(frame, item, tag, p) ==
  LET elems == Append(frame.term.v, item)
      i == frame.i + 1
  IN IF frame.i >= frame.children THEN Panic
     ELSE Placed([frame EXCEPT
                    !.term = IF i = frame.children /\ tag = ettNil
                               THEN List(SubSeq(elems, 1, i - 1))
                               ELSE List(elems),
                    !.i = i],
                 p)

\* case ettSmallTuple, ettLargeTuple
PlaceTuple(frame, item, p) ==
  Placed([frame EXCEPT !.term = Tuple(Append(frame.term.v, item)),
                       !.i = frame.i + 1], p)

\* stack.term.(Map)[key] = value: the entry of an equal key is replaced;
\* a *big.Int key is a pointer and equals no other; a key that is not
\* hashable panics
MapStore(entries, key, value) ==
  LET same(e) == e[1].k = key.k /\ key.k # "bigInt" /\ e[1] = key
  IN IF \E j \in 1..Len(entries) : same(entries[j])
       THEN [j \in 1..Len(entries) |->
               IF same(entries[j]) THEN <<key, value>> ELSE entries[j]]
       ELSE Append(entries, <<key, value>>)

\* case ettMap: an even child is a key, kept in tmp, an odd one its value
PlaceMap(frame, item, p) ==
  IF frame.i % 2 = 1
    THEN IF ~Hashable(frame.tmp) THEN Panic
         ELSE Placed([frame EXCEPT
                        !.term = Map(MapStore(frame.term.v, frame.tmp, item)),
                        !.i = frame.i + 1], p)
    ELSE Placed([frame EXCEPT !.tmp = item, !.i = frame.i + 1], p)

\* the Pid or Port made of the node name and the bytes that follow it;
\* of the creation of a Pid only two bits are significant, of the four
\* creation bytes of the new tags the last is used
Fixed(tag, name, p) ==
  CASE tag = ettPid -> Pid(name, p, p[9] % 4)
    [] tag = ettNewPid -> Pid(name, p, p[12])
    [] tag = ettPort -> Port(name, p, p[5])
    [] tag = ettNewPort -> Port(name, p, p[8])

\* case ettPid, ettNewPid, ettPort, ettNewPort: the node name has been
\* decoded and size bytes follow it
PlaceFixed(frame, item, p, size, lenErr, typeErr) ==
  IF Len(p) < size THEN Fail(lenErr)
  ELSE IF item.k # "Atom" THEN Fail(typeErr)
  ELSE Placed([frame EXCEPT !.term = Fixed(frame.termType, item, p),
                            !.i = frame.i + 1],
              From(p, size))

\* case ettNewRef, ettNewerRef: head bytes hold the creation, at index at,
\* and l words follow; the expected length is computed on a uint16, and
\* the words are sliced off without a further check
PlaceRef(frame, item, p, head, at) ==
  IF item.k # "Atom" THEN Fail("ErrMalformedRef")
  ELSE LET l == frame.tmp
           expectedLength == AddU16(head, (l * 4) % 65536)
       IN IF Len(p) < expectedLength THEN Fail("ErrMalformedRef")
          ELSE IF Len(p) < head + l * 4 THEN Panic
          ELSE Placed([frame EXCEPT
                         !.term = Ref(item, p[at + 1], From(p, head), l),
                         !.tmp = NilTerm,
                         !.i = frame.i + 1],
                      From(p, head + l * 4))

\* case ettNewFun: module, old index, old unique, pid, then the free
\* variables
PlaceFun(frame, item, p) ==
  LET fun == frame.term
      next(f) == Placed([frame EXCEPT !.term = f, !.i = frame.i + 1], p)
  IN CASE frame.i = 0 ->
            IF item.k # "Atom" THEN Fail("ErrMalformedFun")
            ELSE next([fun EXCEPT !.Module = item])
       [] frame.i = 1 ->
            IF item.k # "int" THEN Fail("ErrMalformedFun")
            ELSE next([fun EXCEPT !.OldIndex = GoInt(item.v)])
       [] frame.i = 2 ->
            IF item.k # "int64" THEN Fail("ErrMalformedFun")
            ELSE next([fun EXCEPT !.OldUnique = Binary(Uint32OfInt64(item))])
       [] frame.i = 3 ->
            IF item.k # "Pid" THEN Fail("ErrMalformedFun")
            ELSE next([fun EXCEPT !.Pid = item])
       [] OTHER ->
            IF fun.NumFree < (frame.i - 4) + 1 THEN Fail("ErrMalformedFun")
            ELSE next([fun EXCEPT !.FreeVars = Append(fun.FreeVars, item)])

\* switch stack.termType
Place(frame, item, tag, p) ==
  CASE frame.termType = ettList -> PlaceList(frame, item, tag, p)
    [] frame.termType \in {ettSmallTuple, ettLargeTuple} ->
         PlaceTuple(frame, item, p)
    [] frame.termType = ettMap -> PlaceMap(frame, item, p)
    [] frame.termType = ettPid ->
         PlaceFixed(frame, item, p, 9, "ErrMalformedPid", "ErrMalformedPid")
    [] frame.termType = ettNewPid ->
         PlaceFixed(frame, item, p, 12, "ErrMalformedNewPid",
                    "ErrMalformedPid")
    [] frame.termType = ettNewRef -> PlaceRef(frame, item, p, 1, 0)
    [] frame.termType = ettNewerRef -> PlaceRef(frame, item, p, 4, 3)
    [] frame.termType = ettPort ->
         PlaceFixed(frame, item, p, 5, "ErrMalformedPort",
                    "ErrMalformedPort")
    [] frame.termType = ettNewPort ->
         PlaceFixed(frame, item, p, 8, "ErrMalformedNewPort",
                    "ErrMalformedNewPort")
    [] frame.termType = ettNewFun -> PlaceFun(frame, item, p)
    [] OTHER -> Fail("ErrInternal")

\* stack.i < stack.children; the children of a map are counted in pairs
MoreChildren(frame) ==
  IF frame.termType = ettMap THEN frame.i \div 2 < frame.children
  ELSE frame.i < frame.children
\* --------------------------------------------------------- Decode, the loop
\* return term, err
Return(item, err) == [term |-> item, err |-> err]

\* after the loop: the packet must have strict data length
Finish(item, p) ==
  IF Len(p) > 0 THEN Return(NilTerm, "ErrMalformedPacketLength")
  ELSE Return(item, NoError)

\* One pass of the for loop up to Stage 2: take the tag off the packet and
\* decode a base type, or push the frame of a composite one.  A single
\* element with no frame on the stack leaves the loop.
DecodePass ==
  /\ decPc = "loop"
  /\ IF Len(packet) = 0
       THEN /\ decPc' = "returned"
            /\ result' = Return(NilTerm, "ErrMalformed")
            /\ UNCHANGED <<packet, stack, term, t>>
       ELSE LET tag == packet[1]
                out == Stage1(tag, Tail(packet), cache)
            IN /\ t' = tag
               /\ CASE out.kind = "error" ->
                         /\ decPc' = "returned"
                         /\ result' = Return(NilTerm, out.err)
                         /\ UNCHANGED <<packet, stack, term>>
                    [] out.kind = "panic" ->
                         /\ decPc' = "panicked"
                         /\ UNCHANGED <<packet, stack, term, result>>
                    [] out.kind = "child" ->
                         /\ stack' = Append(stack, out.frame)
                         /\ packet' = out.rest
                         /\ term' = IF out.frame.term.k \in {"nil", "Function"}
                                      THEN term
                                      ELSE out.frame.term
                         /\ UNCHANGED <<decPc, result>>
                    [] out.kind = "term" ->
                         /\ term' = out.term
                         /\ packet' = out.rest
                         /\ UNCHANGED stack
                         /\ IF stack = <<>>
                              THEN /\ decPc' = "returned"
                                   /\ result' = Finish(out.term, out.rest)
                              ELSE /\ decPc' = "processStack"
                                   /\ UNCHANGED result
  /\ UNCHANGED <<input, cache, regVars, appVars>>

\* processStack: the term goes into the frame on top of the stack.  While
\* the frame expects children the loop goes on; a full frame becomes the
\* term, and is popped for its parent to take it, or, with no parent, the
\* loop is left.
DecodePlace ==
  /\ decPc = "processStack"
  /\ LET top == stack[Len(stack)]
         out == Place(top, term, t, packet)
     IN CASE out.kind = "error" ->
               /\ decPc' = "returned"
               /\ result' = Return(NilTerm, out.err)
               /\ UNCHANGED <<packet, stack, term>>
          [] out.kind = "panic" ->
               /\ decPc' = "panicked"
               /\ UNCHANGED <<packet, stack, term, result>>
          [] out.kind = "placed" ->
               /\ packet' = out.rest
               /\ IF MoreChildren(out.frame)
                    THEN /\ stack' = [stack EXCEPT ![Len(stack)] = out.frame]
                         /\ decPc' = "loop"
                         /\ UNCHANGED <<term, result>>
                    ELSE /\ term' = out.frame.term
                         /\ IF Len(stack) = 1
                              THEN /\ stack' =
                                        [stack EXCEPT ![Len(stack)] = out.frame]
                                   /\ decPc' = "returned"
                                   /\ result' = Finish(out.frame.term, out.rest)
                              ELSE /\ stack' = SubSeq(stack, 1, Len(stack) - 1)
                                   /\ decPc' = "processStack"
                                   /\ UNCHANGED result
  /\ UNCHANGED <<input, cache, t, regVars, appVars>>

\* ------------------------------------------------------------ the inputs
\* the bytes the short inputs are made of: small numbers, which are also
\* lengths, and tags
Bytes == {0, 1, 2, ettSmallInteger, ettNil, ettSmallTuple, ettList, ettMap,
          ettSmallBig, ettBitBinary, ettCacheRef, ettPid}

RECURSIVE SeqsUpTo(_, _)
\* the sequences of at most n elements of S
SeqsUpTo(S, n) ==
  IF n = 0 THEN {<<>>}
  ELSE LET shorter == SeqsUpTo(S, n - 1)
       IN shorter \cup {Append(s, x) : s \in shorter, x \in S}

Repeat(x, n) == [j \in 1..n |-> x]

aAtom == <<ettSmallAtom, 1, 97>>

aPid == <<ettPid>> \o aAtom \o <<0, 0, 0, 1, 0, 0, 0, 2, 1>>

aFun ==
  <<ettNewFun, 0, 0, 0, 60, 1>> \o Repeat(7, 16) \o <<0, 0, 0, 3, 0, 0, 0, 1>>
    \o aAtom \o <<ettSmallInteger, 4>> \o <<ettInteger, 0, 0, 0, 5>> \o aPid
    \o <<ettNil>>

\* encodings of one complete term each, as the external term format
\* defines them
Samples ==
  { <<ettSmallInteger, 1>>,
    <<ettNil>>,
    <<ettInteger, 0, 0, 1, 0>>,
    <<ettInteger, 255, 255, 255, 254>>,
    <<ettAtom, 0, 2, 111, 107>>,
    <<ettAtomUTF8, 0, 1, 97>>,
    aAtom,
    <<ettSmallAtomUTF8, 0>>,
    <<ettString, 0, 2, 104, 105>>,
    <<ettNewFloat, 63, 240, 0, 0, 0, 0, 0, 0>>,
    <<ettBinary, 0, 0, 0, 2, 1, 2>>,
    <<ettBinary, 0, 0, 0, 0>>,
    <<ettBitBinary, 0, 0, 0, 1, 3, 160>>,
    <<ettSmallBig, 4, 0, 1, 2, 3, 4>>,
    <<ettSmallBig, 1, 1, 9>>,
    <<ettSmallBig, 9, 0>> \o Repeat(1, 9),
    <<ettSmallBig, 254, 0>> \o Repeat(1, 254),
    <<ettLargeBig, 0, 0, 1, 0, 1>> \o Repeat(1, 256),
    <<ettSmallTuple, 0>>,
    <<ettSmallTuple, 2, ettSmallInteger, 1, ettSmallInteger, 2>>,
    <<ettSmallTuple, 2, ettSmallTuple, 1, ettNil, ettSmallTuple, 0>>,
    <<ettLargeTuple, 0, 0, 0, 1, ettSmallInteger, 1>>,
    <<ettLargeTuple, 0, 0, 0, 0>>,
    <<ettList, 0, 0, 0, 2, ettSmallInteger, 1, ettSmallInteger, 2, ettNil>>,
    <<ettList, 0, 0, 0, 2, ettSmallInteger, 1, ettSmallInteger, 2,
      ettSmallInteger, 3>>,
    <<ettList, 0, 0, 0, 1, ettSmallInteger, 1,
      ettList, 0, 0, 0, 1, ettSmallInteger, 2, ettNil>>,
    <<ettMap, 0, 0, 0, 0>>,
    <<ettMap, 0, 0, 0, 2, ettSmallInteger, 1, ettNil,
      ettSmallInteger, 1, ettSmallInteger, 2>>,
    <<ettMap, 0, 0, 0, 1, ettBinary, 0, 0, 0, 1, 5, ettSmallInteger, 1>>,
    aPid,
    <<ettNewPid>> \o aAtom \o <<0, 0, 0, 1, 0, 0, 0, 2, 0, 0, 0, 3>>,
    <<ettPort>> \o aAtom \o <<0, 0, 0, 1, 2>>,
    <<ettNewPort>> \o aAtom \o <<0, 0, 0, 1, 0, 0, 0, 2>>,
    <<ettNewRef, 0, 2>> \o aAtom \o <<1, 0, 0, 0, 1, 0, 0, 0, 2>>,
    <<ettNewerRef, 0, 1>> \o aAtom \o <<0, 0, 0, 1, 0, 0, 0, 2>>,
    aFun }

\* the samples that refer to the atom cache
CacheSamples == { <<ettCacheRef, 0>> }

\* what is appended to a complete term
Trailers == { <<0>>, <<ettNil>>, <<ettSmallInteger, 1>> }

\* a complete term followed by one or more bytes
Framed == {s \o tr : s \in Samples \cup CacheSamples, tr \in Trailers}

\* the beginnings of the samples, the samples themselves among them
Prefixes ==
  UNION {{SubSeq(s, 1, n) : n \in 0..Len(s)} : s \in Samples \cup CacheSamples}

\* among the inputs are lists of the greatest declared length
Inputs ==
  SeqsUpTo(Bytes, MaxLen) \cup Prefixes \cup Framed
    \cup {<<ettList, 255, 255, 255, 255>> \o s :
             s \in {<<>>, <<ettNil>>, <<ettSmallInteger, 1, ettNil>>}}

\* the atom caches Decode is called with
Caches == { <<>>, <<Atom(<<99>>)>> }

\* Decode(packet, cache) has been called
DecInit ==
  /\ input \in Inputs
  /\ cache \in Caches
  /\ packet = input
  /\ stack = <<>>
  /\ term = NilTerm
  /\ t = 0
  /\ decPc = "loop"
  /\ result = NoResult

DecNext == DecodePass \/ DecodePlace

DecStart == DecInit /\ RegIdle /\ AppIdle

SpecDec == DecStart /\ [][DecNext]_vars

\* ================================================== registrar properties

\* C1: every entry (name -> pid) of the names table has pid as a key of the
\* processes table, in every reachable state of the registrar.
C1_NamesPointToProcesses ==
  \A n \in DOMAIN names : names[n] \in DOMAIN processes

\* C2: every PID returned by RegisterProcess carries the node name and an Id
\* strictly greater than every Id returned before it, so no PID is returned
\* twice, and no two entries of the processes table share a PID.
C2_PidsFreshAndIncreasing ==
  /\ \A i \in 1..Len(allocated) : allocated[i].pid.Node = NodeName
  /\ \A i, j \in 1..Len(allocated) :
       i < j => allocated[i].pid.Id < allocated[j].pid.Id
  /\ \A p, q \in DOMAIN processes :
       processes[p].self = processes[q].self => p = q
  /\ \A p \in DOMAIN processes : processes[p].self = p

\* two PIDs were returned, the second after a process had been unregistered
C2_Witness ==
  /\ Len(allocated) = 2
  /\ closed # <<>>
  /\ allocated[2].pid \in DOMAIN processes

\* the loop takes a routeByPid request for a PID of this node that is not a
\* key of the processes table
TakesMissingLocalPid ==
  /\ regPc = "select"
  /\ chPid # <<>>
  /\ chPid' = Tail(chPid)
  /\ ~RetriesExhausted(Head(chPid).retries)
  /\ Head(chPid).pid.Node = NodeName
  /\ Head(chPid).pid \notin DOMAIN processes

\* C3: a RouteByPid request whose destination PID is local but not in the
\* processes table is dropped: nothing is put into a mailbox, the tables are
\* unchanged and the loop goes on to its next select.
C3_MissingLocalPidDropped ==
  [][TakesMissingLocalPid =>
       /\ placed' = placed
       /\ processes' = processes
       /\ names' = names
       /\ regPc' = "select"]_vars

\* the route requests whose destination is another node
RemoteBound(i) ==
  \/ sent[i].kind = "pid" /\ sent[i].to.Node # NodeName
  \/ sent[i].kind = "tuple" /\ sent[i].to[2] # NodeName

\* C4: a RouteByPid or RouteByTuple request to a node without a peer is
\* processed at most 4 times and re-enqueued at most 3 times, with one
\* connect per re-enqueue; it is dropped at its 4th processing, after
\* exactly 3 re-enqueues and 3 connects, and it is never forwarded.
C4_RetryBound ==
  \A i \in 1..Len(sent) :
    RemoteBound(i) =>
      /\ attempts[i] <= 4
      /\ requeues[i] <= 3
      /\ connects[i] = requeues[i]
      /\ attempts[i] <= requeues[i] + 1
      /\ (i \in dropped =>
            attempts[i] = 4 /\ requeues[i] = 3 /\ connects[i] = 3)
      /\ (attempts[i] = 4 => i \in dropped)
      /\ \A k \in 1..Len(placed) : placed[k].message # i

\* a RouteByPid and a RouteByTuple request to the peerless node were both
\* dropped after their retries
C4_Witness ==
  \E i, j \in 1..Len(sent) :
    /\ sent[i].kind = "pid" /\ RemoteBound(i) /\ i \in dropped
    /\ sent[j].kind = "tuple" /\ RemoteBound(j) /\ j \in dropped
    /\ requeues[i] = 3 /\ requeues[j] = 3

\* the Done case of the select has been taken
ShutdownTaken == regPc \in {"stopSend", "done"}

\* C5: when the node context fires, the loop invokes Stop("normal") of every
\* live process and then exits, whatever the number of live processes: it is
\* not left blocked inside a Stop call.
C5_ShutdownStopsAllAndExits ==
  ShutdownTaken => (regPc = "done" /\ DOMAIN processes \subseteq stopCalled)

\* two placements of RouteByPid messages of one sender at one destination
\* along one path
SameLink(a, b) ==
  /\ sent[a.message].kind = "pid"
  /\ sent[b.message].kind = "pid"
  /\ a.path = b.path
  /\ a.dest = b.dest
  /\ a.from = b.from

\* C6: two messages sent by one sender to one destination PID through
\* RouteByPid along the same path are placed (into the mailbox, or on the
\* peer's send queue) in the order they were sent.
C6_PerLinkFifo ==
  \A i, j \in 1..Len(placed) :
    (i < j /\ SameLink(placed[i], placed[j]))
      => placed[i].message < placed[j].message

\* two RouteByPid messages of one sender were placed into the same mailbox
C6_Witness ==
  \E i, j \in 1..Len(placed) :
    /\ i < j
    /\ SameLink(placed[i], placed[j])
    /\ placed[i].path = "local"

\* ================================================ application properties

\* the Exit calls made by the step
NewExits == SubSeq(exits', Len(exits) + 1, Len(exits'))

\* the loop takes the EXIT of one of its started children from the mailbox
TakesChildExit(st) ==
  /\ appPc = "loop"
  /\ strategy = st
  /\ appMailBox # <<>>
  /\ appMailBox' = Tail(appMailBox)
  /\ IsExitMessage(Head(appMailBox))
  /\ IsChild(Terminated(Head(appMailBox)))

\* the step sends one Exit with the reason to every started child but the
\* terminated one, and no other Exit
OthersStopped(terminated, reason) ==
  /\ SubSeq(exits', 1, Len(exits)) = exits
  /\ \A i \in ChildIndex :
       (children[i] # NoProcess /\ children[i] # terminated) =>
         Cardinality({k \in 1..Len(NewExits) :
                        /\ NewExits[k].to = children[i]
                        /\ NewExits[k].reason = reason}) = 1
  /\ \A k \in 1..Len(NewExits) :
       /\ NewExits[k].to # terminated
       /\ NewExits[k].reason = reason
       /\ IsChild(NewExits[k].to)
  /\ Len(NewExits) = Cardinality({i \in ChildIndex :
                        children[i] # NoProcess /\ children[i] # terminated})

NothingStopped ==
  /\ exits' = exits
  /\ nodeStops' = nodeStops
  /\ appPc' = "loop"
  /\ appResult' = appResult

\* C7: under the Permanent strategy a child EXIT with reason R makes the
\* application send Exit with reason R to every other started child, call
\* node.Stop once, and return "shutdown".
C7_PermanentEscalates ==
  [][TakesChildExit("permanent") =>
       /\ OthersStopped(Terminated(Head(appMailBox)),
                        ExitReason(Head(appMailBox)))
       /\ nodeStops = 0
       /\ nodeStops' = 1
       /\ appPc' = "returned"
       /\ appResult' = "shutdown"]_vars

\* a permanent application handled the crash of its first child
C7_Witness ==
  /\ strategy = "permanent"
  /\ handled = <<[pid |-> ChildPid(1), reason |-> "crash"]>>
  /\ exits = <<[to |-> ChildPid(2), from |-> ChildPid(1), reason |-> "crash"]>>
  /\ nodeStops = 1
  /\ appPc = "returned"
  /\ appResult = "shutdown"

C9_TemporaryContinues ==
  [][TakesChildExit("temporary") => NothingStopped]_vars

\* a temporary application handled the crash of a child and still supervises
C9_Witness ==
  /\ strategy = "temporary"
  /\ Len(handled) >= 1
  /\ handled[1] = [pid |-> ChildPid(1), reason |-> "crash"]
  /\ exits = <<>>
  /\ nodeStops = 0
  /\ appPc = "loop"

\* C10: children are started in declared order; when the start of the i-th
\* fails no later child is started, every child before it gets Exit with
\* reason "failed", and the loop returns "failed" without having been in its
\* steady state.
C10_StartupFailure ==
  /\ started = [i \in 1..Len(started) |-> i]
  /\ \A i \in ChildIndex : (children[i] # NoProcess) <=> (i <= Len(started))
  /\ \A i \in ChildIndex : children[i] # NoProcess => children[i] = ChildPid(i)
  /\ appPc = "loop" => Len(started) = NumChildren
  /\ appResult = "failed" =>
       /\ appPc = "returned"
       /\ Len(started) < NumChildren
       /\ Len(exits) = Len(started)
       /\ \A j \in 1..Len(started) :
            exits[j].to = ChildPid(j) /\ exits[j].reason = "failed"
       /\ handled = <<>>
       /\ ~timerC
       /\ nodeStops = 0

\* the start of the second child failed after the first had been started
C10_Witness ==
  /\ appResult = "failed"
  /\ started = <<1>>
  /\ children[2] = NoProcess
  /\ Len(exits) = 1

\* the loop takes a graceful-exit signal
TakesGracefulExit ==
  /\ appPc = "loop"
  /\ gracefulExit # <<>>
  /\ gracefulExit' = Tail(gracefulExit)

\* C11: on a graceful-exit signal {from, reason} the application sends exactly
\* one Exit with that reason to every started child whose PID differs from
\* from, none to a child whose PID equals from, and its loop returns the
\* received reason.
C11_GracefulExit ==
  [][TakesGracefulExit =>
       /\ OthersStopped(Head(gracefulExit).from, Head(gracefulExit).reason)
       /\ nodeStops' = nodeStops
       /\ appPc' = "returned"
       /\ appResult' = Head(gracefulExit).reason]_vars

\* the application took the signal {child 1, "crash"}: only the second child
\* was sent an Exit
C11_Witness ==
  /\ appPc = "returned"
  /\ appResult = "crash"
  /\ handled = <<>>
  /\ nodeStops = 0
  /\ exits = <<[to |-> ChildPid(2), from |-> ChildPid(1), reason |-> "crash"]>>

\* C12: every Exit signal the application sends to a child, in every cascade
\* (startup failure, graceful exit, Permanent EXIT, abnormal Transient EXIT),
\* carries the application's own PID as its from field.
C12_ExitsFromApplication ==
  \A k \in 1..Len(exits) : exits[k].from = AppPid

\* ========================================== registrar properties, continued

\* C13: each RegisterProcess advances the allocator by exactly one: starting
\* from nextPid = 1000 the k-th RegisterProcess call returns a PID with Id
\* 1000 + k (1001, then 1002, ...), Serial 1 and Creation 1.
C13_IdsConsecutive ==
  \A k \in 1..Len(allocated) :
    /\ allocated[k].pid.Id = startPID + k
    /\ allocated[k].pid.Serial = 1
    /\ allocated[k].pid.Creation = 1

\* the loop takes a routeByName request
TakesRouteByName ==
  /\ regPc = "select"
  /\ chName # <<>>
  /\ chName' = Tail(chName)

\* the messages of the requests waiting in a route channel
MessagesIn(ch) == {ch[k].message : k \in 1..Len(ch)}

\* C14: a RouteByName request for name n is resolved against the names table
\* as it is when the loop takes the request.  If n is absent the message is
\* dropped: no retry, no table change, and no later registration of n makes
\* it deliverable.  If n maps to pid, the loop sends exactly one RouteByPid
\* request for pid with the same from and message.
C14_ResolvedWhenTaken ==
  /\ [][TakesRouteByName =>
          LET bn == Head(chName)
          IN IF bn.name \notin DOMAIN names
               THEN /\ regPc' = "select"
                    /\ pending' = pending
                    /\ <<tables, chPid, chTuple>>' = <<tables, chPid, chTuple>>
                    /\ <<placed, requeues, connects>>'
                         = <<placed, requeues, connects>>
               ELSE /\ regPc' = "routePid"
                    /\ pending' = [kind |-> "routePid",
                         req |-> [from |-> bn.from, pid |-> names[bn.name],
                                  message |-> bn.message, retries |-> 0]]
                    /\ <<tables, chPid, chTuple>>'
                         = <<tables, chPid, chTuple>>]_vars
  /\ [][(regPc = "routePid" /\ regPc' # "routePid") =>
          /\ regPc' = "select"
          /\ chPid' = Append(chPid, pending.req)
          /\ tables' = tables]_vars
  /\ [](\A i \in DOMAIN resolved :
          resolved[i].state = "absent" =>
            /\ i \notin MessagesIn(chPid) \cup MessagesIn(chName)
            /\ \A k \in 1..Len(placed) : placed[k].message # i
            /\ pending.kind \in {"routePid", "mailBoxSend"}
                 => pending.req.message # i)

\* one message was sent to a name registered only after the loop had taken
\* the request, and another to the name once it was registered, which
\* reached the mailbox
C14_Witness ==
  \E i, j \in 1..Len(sent) :
    /\ resolved[i].state = "absent"
    /\ sent[i].to \in DOMAIN names
    /\ resolved[j].state = "pid"
    /\ \E k \in 1..Len(placed) : placed[k].message = j

\* the loop takes a routeByPid request for a node whose RegisterPeer request
\* has been processed
TakesPidForPeer ==
  /\ regPc = "select"
  /\ chPid # <<>>
  /\ chPid' = Tail(chPid)
  /\ ~RetriesExhausted(Head(chPid).retries)
  /\ Head(chPid).pid.Node \in peerReqs

\* C15: RegisterPeer{name, peer} installs the peer when name is absent from
\* the peers table and is a no-op when it is present; after it is processed
\* a RouteByPid to that node pushes exactly one SEND frame onto that peer's
\* send queue instead of re-enqueueing the request.
C15_RegisterPeerInstalls ==
  /\ [](peerReqs \subseteq peers.map)
  /\ [][TakesPidForPeer =>
          /\ regPc' = "select"
          /\ placed' = Append(placed,
               [path |-> "peer", dest |-> Head(chPid).pid,
                from |-> Head(chPid).from, message |-> Head(chPid).message])
          /\ requeues' = requeues]_vars

\* C17: UnregisterProcess is idempotent while the registrar runs: a request
\* for a pid that is not in the processes table (unregistered before, or
\* never registered) changes no table and closes no channel, so the
\* channels of a process are closed exactly once.
C17_UnregisterIdempotent ==
  /\ [](\A j, k \in 1..Len(closed) : closed[j] = closed[k] => j = k)
  /\ [](\A k \in 1..Len(closed) : closed[k] \notin DOMAIN processes)
  /\ [][missed' # missed =>
          /\ tables' = tables
          /\ closed' = closed
          /\ regPc' = regPc]_vars

\* the request for a process was processed a second time, after its channels
\* had been closed
C17_Witness ==
  \E k \in 1..Len(closed) : closed[k] \in missed

\* C18: with route channels of a capacity above 1 the re-enqueue the loop
\* makes for a request whose peer is missing never self-deadlocks: in no
\* reachable state is the loop blocked sending to its own route channel
\* while that channel, which only the loop receives from, is full.
C18_RequeueNeverBlocks ==
  /\ RouteCap > 1
  /\ ~(regPc = "requeuePid" /\ Len(chPid) >= RouteCap)
  /\ ~(regPc = "requeueTuple" /\ Len(chTuple) >= RouteCap)

\* ======================================== application properties, continued

\* the Exit the timer case sends to the application itself
TimerExit == [from |-> AppPid, reason |-> "normal"]

DecodeEnded == decPc \in {"returned", "panicked"}

\* the number of bytes taken off the input
consumed == Len(input) - Len(packet)

\* the complete terms the cache allows
Complete == Samples \cup (IF cache = <<>> THEN {} ELSE CacheSamples)

\* the input is a complete term followed by one or more bytes
InputFramed == \E s \in Complete, tr \in Trailers : input = s \o tr

\* C20: Decode returns a term only when the bytes consumed are the whole
\* input; on a complete term followed by one or more bytes it returns the
\* packet-length error and no term; on the empty input it returns the
\* generic Malformed error.
C20_StrictFraming ==
  /\ decPc = "returned" /\ result.err = NoError => consumed = Len(input)
  /\ DecodeEnded /\ InputFramed =>
       decPc = "returned" /\ result = Return(NilTerm, "ErrMalformedPacketLength")
  /\ DecodeEnded /\ input = <<>> =>
       decPc = "returned" /\ result = Return(NilTerm, "ErrMalformed")

\* the frame on top of the stack is a list that takes its last child, the
\* tail, in this step
TailPlaced ==
  /\ decPc = "processStack"
  /\ stack[Len(stack)].termType = ettList
  /\ stack[Len(stack)].i + 1 = stack[Len(stack)].children
  /\ decPc' \in {"loop", "processStack", "returned"}
  /\ term'.k = "List"

\* C21: a list of declared length N >= 1 takes N+1 children; it is the
\* proper list of the N elements if and only if the tail itself is encoded
\* as ettNil (the only encoding of the empty list), and otherwise it keeps
\* all N+1 entries, whatever the last byte of the tail's encoding is.
C21_TailKeptUnlessNil ==
  [][TailPlaced =>
       LET elems == stack[Len(stack)].term.v
       IN /\ Len(elems) + 1 = stack[Len(stack)].children
          /\ term' = IF term.k = "List" /\ term.v = <<>>
                       THEN List(elems)
                       ELSE List(Append(elems, term))]_vars

\* C22: Decode never panics: on every input, truncated or with lengths that
\* do not fit the bytes, each access to the packet and to the atom cache is
\* within bounds.
C22_NeverPanics == decPc # "panicked"

\* the error value declared for a tag: "Malformed ETF. <tag>"
ErrOf(tag) ==
  CASE tag \in {ettAtomUTF8, ettAtom} -> "ErrMalformedAtomUTF8"
    [] tag \in {ettSmallAtomUTF8, ettSmallAtom} -> "ErrMalformedSmallAtomUTF8"
    [] tag = ettString -> "ErrMalformedString"
    [] tag = ettCacheRef -> "ErrMalformedCacheRef"
    [] tag = ettNewFloat -> "ErrMalformedNewFloat"
    [] tag = ettSmallInteger -> "ErrMalformedSmallInteger"
    [] tag = ettInteger -> "ErrMalformedInteger"
    [] tag = ettSmallBig -> "ErrMalformedSmallBig"
    [] tag = ettLargeBig -> "ErrMalformedLargeBig"
    [] tag = ettList -> "ErrMalformedList"
    [] tag = ettSmallTuple -> "ErrMalformedSmallTuple"
    [] tag = ettLargeTuple -> "ErrMalformedLargeTuple"
    [] tag = ettMap -> "ErrMalformedMap"
    [] tag = ettBinary -> "ErrMalformedBinary"
    [] tag = ettBitBinary -> "ErrMalformedBitBinary"
    [] tag = ettPid -> "ErrMalformedPid"
    [] tag = ettNewPid -> "ErrMalformedNewPid"
    [] tag = ettNewRef -> "ErrMalformedRef"
    [] tag = ettNewerRef -> "ErrMalformedNewRef"
    [] tag = ettPort -> "ErrMalformedPort"
    [] tag = ettNewPort -> "ErrMalformedNewPort"
    [] tag = ettNewFun -> "ErrMalformedFun"
    [] OTHER -> "ErrMalformedUnknownType"

\* the input is a complete term cut short: it has the tag and fewer bytes
\* than the term
Truncated ==
  /\ input # <<>>
  /\ \E s \in Complete :
       Len(input) < Len(s) /\ input = SubSeq(s, 1, Len(input))

\* the tags of the terms that are being decoded: the one read last and
\* those of the frames on the stack
OpenTags == {t} \cup {stack[j].termType : j \in 1..Len(stack)}

\* C23: on an input cut short of a term of tag T (a composite whose
\* children or trailing fixed fields are missing included), a Decode that
\* returns returns no term and the error of the tag of a term being
\* decoded, never the generic Malformed error nor the error of another tag.
C23_TagSpecificError ==
  DecodeEnded /\ decPc = "returned" /\ Truncated =>
    /\ result.term = NilTerm
    /\ result.err \in {ErrOf(tag) : tag \in OpenTags}

\* Decode runs to its end: the loop is not left waiting
SpecDecFair == SpecDec /\ WF_vars(DecNext)

\* every frame on the stack expects at least one child
FramesExpectChildren ==
  \A j \in 1..Len(stack) : stack[j].children >= 1

\* a pass of the loop that goes on takes at least the tag off the packet
PassConsumes ==
  decPc = "loop" /\ decPc' \in {"loop", "processStack"} =>
    Len(packet') < Len(packet)

\* a frame leaves the stack when it has taken exactly the children it
\* expects, the pairs of a map counted twice
PoppedWhenFull ==
  Len(stack') < Len(stack) =>
    LET full == Place(stack[Len(stack)], term, t, packet).frame
    IN full.i = IF full.termType = ettMap THEN 2 * full.children
                ELSE full.children

\* C29: Decode terminates on every input: every pass of the loop consumes
\* at least one byte, every frame is pushed with at least one expected
\* child and is popped after exactly that many placements, and in the end
\* Decode returns, with the term of the emptied stack or with an error.
C29_Terminates ==
  /\ []FramesExpectChildren
  /\ [][PassConsumes]_vars
  /\ [][PoppedWhenFull]_vars
  /\ <>(decPc = "returned")

\* ======================================== application properties, part 3
\* the loop takes from its mailbox the pair (from, message) that the
\* registrar's local route has put there, message being {EXIT, pid, reason}
TakesRoutedExit ==
  /\ appPc = "loop"
  /\ appMailBox # <<>>
  /\ appMailBox' = Tail(appMailBox)
  /\ \E i \in ChildIndex, reason \in Reasons :
       Head(appMailBox) = RoutedMessage(ChildPid(i), ChildPid(i), reason)

\* C24: an {EXIT, ChildPid, Reason} message routed to the application by the
\* registrar's local delivery, which enqueues the pair (from, message), is
\* recognised by the loop as the EXIT of a child: the restart strategy is
\* applied to ChildPid and Reason.
C24_RoutedExitHandled ==
  [][TakesRoutedExit =>
       LET msg == Head(appMailBox)
       IN handled' = Append(handled,
                            [pid |-> msg[2].elems[2].pid,
                             reason |-> msg[2].elems[3].atom])]_vars

\* ========================================== registrar properties, part 3
\* the loop is blocked in p.mailBox <- ... on the full mailbox of a process
\* that is itself blocked in its send of a request to the loop
BlockedOnEachOther ==
  /\ regPc = "mailBoxSend"
  /\ pending.req.pid \in DOMAIN processes
  /\ Len(processes[pending.req.pid].mailBox) >= MailboxSize
  /\ processes[pending.req.pid].inStop

\* C25: the registrar and a process never block on each other: in no
\* reachable state is the loop blocked enqueueing a locally routed message
\* into the full mailbox of a process that is blocked sending a request to
\* the registrar.
C25_NoMutualBlock == ~BlockedOnEachOther

\* C26: with several callers of RegisterProcessExt on the shared request
\* and reply channels, every caller receives the handle made for its own
\* request, with the name it asked for and the pid allocated for it: at
\* most one caller waits for a reply at a time, and no reply goes to
\* another caller.
C26_RepliesToOwnCaller ==
  /\ Cardinality({c \in Clients : clientPc[c] = "wait"}) <= 1
  /\ regPc = "reply" =>
       /\ clientPc[pending.client] = "wait"
       /\ pending.process.name = clientName[pending.client]
  /\ \A k \in 1..Len(allocated) :
       /\ allocated[k].own
       /\ allocated[k].name = allocated[k].reqName

\* two callers have each received a handle, for different names
C26_Witness ==
  /\ Len(allocated) = 2
  /\ allocated[1].reqName = "a"
  /\ allocated[2].reqName = ""
  /\ \E c \in Clients : clientName[c] = "a" /\ clientPc[c] = "idle"
  /\ \E c \in Clients : clientName[c] = "" /\ clientPc[c] = "idle"

\* C27: a name given to a process at registration maps to that process
\* for as long as the process is in the processes table; registering or
\* unregistering another process of the same name leaves the entry alone.
C27_NameStaysWithProcess ==
  \A pid \in DOMAIN processes :
    processes[pid].name # "" =>
      /\ processes[pid].name \in DOMAIN names
      /\ names[processes[pid].name] = pid

\* the children whose EXIT the loop has processed, after which it went on
\* supervising
TerminatedChildren ==
  IF appPc = "loop"
    THEN {handled[k].pid : k \in 1..Len(handled)}
         \cap ({children[i] : i \in ChildIndex} \ {NoProcess})
    ELSE {}

ExitToTerminatedChild ==
  \E k \in (Len(exits) + 1)..Len(exits') : exits'[k].to \in TerminatedChildren

\* C28: once an application of the transient (reason normal or shutdown) or
\* temporary strategy has processed the EXIT of child c and goes on, no
\* later stop cascade (graceful exit, lifetime timer, the EXIT of another
\* child) sends an Exit signal to c.
C28_NoExitToTerminatedChild == [][~ExitToTerminatedChild]_vars
====
